---- MODULE Spec2Model ----
(***************************************************************************)
(* Model of walls-experiment (src/src/main.rs): the autotile classifier    *)
(* (Piece::choose, Quarter::from_grid, CellDetails::from_grid), the mesh   *)
(* buffers (RelativeBuffers::concat, concat_all, transform), the piece     *)
(* geometry (make_top, make_faces, make_geometry) and main's pipeline.     *)
(*                                                                         *)
(* Four specifications share the variables:                                *)
(*   SpecChoose  calls of Piece::choose on arbitrary arguments             *)
(*   SpecGrid    calls of Quarter::from_grid / CellDetails::from_grid      *)
(*   SpecBuf     calls of concat / concat_all / transform on buffers       *)
(*   SpecMesh    main's pipeline from a grid to the merged mesh            *)
(* Each call is one step from the "input" state to a state that holds the  *)
(* name of the call (call) and its return value (ret).                     *)
(*                                                                         *)
(* Vertex positions and texture coordinates are f32 in the source; the     *)
(* model computes them in exact integer arithmetic (all of main's          *)
(* parameters are integers and the four rotations are by multiples of 90   *)
(* degrees).  No property below depends on a coordinate's numeric value.   *)
(***************************************************************************)
EXTENDS Integers, Sequences, FiniteSets, TLC

VARIABLES
    neigh_a, neigh_b,        \* the arguments of Piece::choose
    grid, coord,             \* a Grid<CellType> and a coordinate in it
    buf_a, buf_b, buf_c,     \* three RelativeBuffers
    overflow_checks,         \* build profile: TRUE when u32 overflow panics
    call,                    \* the operation that produced ret ("none" at first)
    ret                      \* its return value

vars == <<neigh_a, neigh_b, grid, coord, buf_a, buf_b, buf_c,
          overflow_checks, call, ret>>

\* The value of a variable the running specification does not use.
Unused == [unused |-> TRUE]
NoRet == [none |-> TRUE]

(***************************************************************************)
(* Cell types, directions and pieces.  The directions come from the crate   *)
(* `direction`, whose source is not part of the repository: right90,       *)
(* left90, coord and to_cardinals are modelled as the crate documents      *)
(* them, at the places main.rs calls them.                                 *)
(***************************************************************************)
CellType == {"Wall", "Floor"}

CardinalDirection == {"North", "East", "South", "West"}

\* In the order of the enum's discriminants, which is the order in which
\* OrdinalDirections iterates and in which quarters[o as usize] is indexed.
OrdinalDirections == <<"NorthEast", "SouthEast", "SouthWest", "NorthWest">>

OrdinalDirection == {OrdinalDirections[i] : i \in 1..4}

\* o as usize, shifted to TLA+'s 1-based sequences.
OrdinalIndex(o) == CHOOSE i \in 1..4 : OrdinalDirections[i] = o

right90(d) ==
    CASE d = "North" -> "East"
      [] d = "East" -> "South"
      [] d = "South" -> "West"
      [] d = "West" -> "North"

left90(d) ==
    CASE d = "North" -> "West"
      [] d = "West" -> "South"
      [] d = "South" -> "East"
      [] d = "East" -> "North"

\* Offsets with the y axis pointing up: North and South exchanged.
CardinalCoord_y_up(d) ==
    CASE d = "North" -> <<0, 1>>
      [] d = "East" -> <<1, 0>>
      [] d = "South" -> <<0, -1>>
      [] d = "West" -> <<-1, 0>>

\* CardinalDirection::coord: the unit offset, y growing downwards (row index).
CardinalCoord(d) ==
    CASE d = "North" -> <<0, -1>>
      [] d = "East" -> <<1, 0>>
      [] d = "South" -> <<0, 1>>
      [] d = "West" -> <<-1, 0>>

\* A decomposition that pairs each first component with its opposite.
to_cardinals_opposite(o) ==
    CASE o = "NorthEast" -> <<"North", "South">>
      [] o = "SouthEast" -> <<"East", "West">>
      [] o = "SouthWest" -> <<"South", "North">>
      [] o = "NorthWest" -> <<"West", "East">>

\* OrdinalDirection::to_cardinals: the two cardinal components.
to_cardinals(o) ==
    CASE o = "NorthEast" -> <<"North", "East">>
      [] o = "SouthEast" -> <<"East", "South">>
      [] o = "SouthWest" -> <<"South", "West">>
      [] o = "NorthWest" -> <<"West", "North">>

\* The order of the pair is the crate's choice and nothing in main.rs fixes
\* it: a call site receives the pair in either order.
CardinalPairs(o) ==
    {to_cardinals(o), <<to_cardinals(o)[2], to_cardinals(o)[1]>>}

Piece == {"Inner", "Outer", "Left", "Right"}

\* The piece of a Piece::choose that reached unreachable!().
Unreachable == "unreachable!()"

\* The outcome of a call that panicked.
Panic == [panic |-> TRUE]

IsPanic(b) == "panic" \in DOMAIN b

(***************************************************************************)
(* Piece::choose.  A neighbour is <<cell type, cardinal direction>>.       *)
(***************************************************************************)
choose_mirrored(a, b) ==
    IF a[1] = "Floor" /\ b[1] = "Floor" THEN "Outer"
    ELSE IF a[1] = "Wall" /\ b[1] = "Wall" THEN "Inner"
    ELSE LET wall_direction == IF a[1] = "Wall" THEN a[2] ELSE b[2]
             floor_direction == IF a[1] = "Wall" THEN b[2] ELSE a[2]
         IN  IF right90(wall_direction) = floor_direction THEN "Left"
             ELSE IF left90(wall_direction) = floor_direction THEN "Right"
             ELSE Unreachable

choose_argorder(a, b) ==
    IF a[1] = "Floor" /\ b[1] = "Floor" THEN "Outer"
    ELSE IF a[1] = "Wall" /\ b[1] = "Wall" THEN "Inner"
    ELSE IF right90(a[2]) = b[2] THEN "Right"
    ELSE IF left90(a[2]) = b[2] THEN "Left"
    ELSE Unreachable

choose(a, b) ==
    IF a[1] = "Floor" /\ b[1] = "Floor" THEN "Outer"
    ELSE IF a[1] = "Wall" /\ b[1] = "Wall" THEN "Inner"
    ELSE LET wall_direction == IF a[1] = "Wall" THEN a[2] ELSE b[2]
             floor_direction == IF a[1] = "Wall" THEN b[2] ELSE a[2]
         IN  IF right90(wall_direction) = floor_direction THEN "Right"
             ELSE IF left90(wall_direction) = floor_direction THEN "Left"
             ELSE Unreachable

Neighbour == CellType \X CardinalDirection

InitChoose ==
    /\ neigh_a \in Neighbour
    /\ neigh_b \in Neighbour
    /\ grid = Unused /\ coord = Unused
    /\ buf_a = Unused /\ buf_b = Unused /\ buf_c = Unused
    /\ overflow_checks = Unused
    /\ call = "none"
    /\ ret = NoRet

Choose ==
    /\ call = "none"
    /\ call' = "Piece::choose"
    /\ ret' = choose(neigh_a, neigh_b)
    /\ UNCHANGED <<neigh_a, neigh_b, grid, coord, buf_a, buf_b, buf_c,
                   overflow_checks>>

NextChoose == Choose

SpecChoose == InitChoose /\ [][NextChoose]_vars

\* The two arguments are the cardinal components of one ordinal direction.
FromOneOrdinal(a, b) ==
    \E o \in OrdinalDirection : <<a[2], b[2]>> \in CardinalPairs(o)

\* The cardinal direction whose offset is d's offset turned 90 degrees
\* clockwise on the grid (y grows downwards): (x, y) -> (-y, x).
RotateClockwise(d) ==
    CHOOSE e \in CardinalDirection :
        CardinalCoord(e) = <<0 - CardinalCoord(d)[2], CardinalCoord(d)[1]>>

RotateCounterClockwise(d) ==
    CHOOSE e \in CardinalDirection :
        CardinalCoord(e) = <<CardinalCoord(d)[2], 0 - CardinalCoord(d)[1]>>

\* C1: for the two cardinal components of one ordinal direction, choose
\* returns Outer for Floor/Floor, Inner for Wall/Wall, and in the mixed case
\* Right when the Wall neighbour's direction turned clockwise is the Floor
\* neighbour's direction, Left when turned counter-clockwise.
C1_ChooseTable ==
    (call = "Piece::choose" /\ FromOneOrdinal(neigh_a, neigh_b)) =>
        /\ (neigh_a[1] = "Floor" /\ neigh_b[1] = "Floor") => ret = "Outer"
        /\ (neigh_a[1] = "Wall" /\ neigh_b[1] = "Wall") => ret = "Inner"
        /\ \A w \in {neigh_a, neigh_b} : \A f \in {neigh_a, neigh_b} :
             (w[1] = "Wall" /\ f[1] = "Floor") =>
                /\ RotateClockwise(w[2]) = f[2] => ret = "Right"
                /\ RotateCounterClockwise(w[2]) = f[2] => ret = "Left"
                /\ ret \in {"Left", "Right"}

C1_Witness ==
    /\ call = "Piece::choose"
    /\ neigh_a = <<"Floor", "West">>
    /\ neigh_b = <<"Wall", "North">>
    /\ ret = "Left"

\* C4: choose is symmetric: on the cardinal components of one ordinal
\* direction, with any cell types, swapping the arguments gives the same piece.
C4_ChooseSymmetric ==
    (call = "Piece::choose" /\ FromOneOrdinal(neigh_a, neigh_b)) =>
        /\ ret \in Piece
        /\ ret = choose(neigh_b, neigh_a)

C4_Witness ==
    /\ call = "Piece::choose"
    /\ neigh_a[1] = "Floor" /\ neigh_b[1] = "Wall"
    /\ FromOneOrdinal(neigh_a, neigh_b)
    /\ ret = "Right"

(***************************************************************************)
(* Grid<CellType> (crate `grid_2d`), Quarter and CellDetails.              *)
(***************************************************************************)
\* The largest number of cells of a grid.
MaxCells == 9

\* Option<T>.
None == [is_some |-> FALSE]
Some(v) == [is_some |-> TRUE, value |-> v]

Coords(width, height) == (0..(width - 1)) \X (0..(height - 1))

\* Every grid of width x height cells; main builds one from the terrain text,
\* '.' a Floor and '#' a Wall, with at least one row and one column.
GridsOfSize(width, height) ==
    {[width |-> width, height |-> height, cells |-> c] :
        c \in [Coords(width, height) -> CellType]}

GridsUpTo(cells) ==
    UNION {GridsOfSize(wh[1], wh[2]) :
             wh \in {x \in (1..cells) \X (1..cells) : x[1] * x[2] <= cells}}

\* Grid::get: None outside the grid.
GridGet(g, c) ==
    IF c[1] \in 0..(g.width - 1) /\ c[2] \in 0..(g.height - 1)
    THEN Some(g.cells[c])
    ELSE None

\* Option::unwrap_or.
unwrap_or(opt, default) == IF opt.is_some THEN opt.value ELSE default

CoordAdd(c, d) == <<c[1] + d[1], c[2] + d[2]>>

\* A neighbour lookup that reads out-of-grid cells as Wall.
NeighbourType_wall_default(g, c, card) ==
    unwrap_or(GridGet(g, CoordAdd(c, CardinalCoord(card))), "Wall")

\* grid.get(coord + card.coord()).cloned().unwrap_or(CellType::Floor)
NeighbourType(g, c, card) ==
    unwrap_or(GridGet(g, CoordAdd(c, CardinalCoord(card))), "Floor")

\* Quarter::from_grid, given the pair direction.to_cardinals() returned.
Quarter_from_grid(g, c, cards) ==
    LET card_a == cards[1]
        card_b == cards[2]
        cell_type_a == NeighbourType(g, c, card_a)
        cell_type_b == NeighbourType(g, c, card_b)
    IN  [piece |-> choose(<<cell_type_a, card_a>>, <<cell_type_b, card_b>>)]

\* CellDetails::outer
CellDetails_outer == [quarters |-> [i \in 1..4 |-> [piece |-> "Outer"]]]

\* The pairs to_cardinals may return for the four ordinal directions.
CardinalChoices ==
    {[o \in OrdinalDirection |->
        IF o \in swapped THEN <<to_cardinals(o)[2], to_cardinals(o)[1]>>
        ELSE to_cardinals(o)] : swapped \in SUBSET OrdinalDirection}

\* The loop `for o in OrdinalDirections` of from_grid, from the k-th
\* direction on: quarters[o as usize] = Quarter::from_grid(grid, coord, o).
RECURSIVE from_grid_loop(_, _, _, _, _)
from_grid_loop(g, c, cards, k, cell_details) ==
    IF k > Len(OrdinalDirections) THEN cell_details
    ELSE LET o == OrdinalDirections[k]
         IN  from_grid_loop(g, c, cards, k + 1,
                [cell_details EXCEPT
                    !.quarters[OrdinalIndex(o)] = Quarter_from_grid(g, c, cards[o])])

\* A from_grid that resolves the quarters of every cell, Floor or Wall.
CellDetails_from_grid_no_floor_check(g, c, cards) ==
    Some(from_grid_loop(g, c, cards, 1, CellDetails_outer))

\* CellDetails::from_grid: None for a Floor cell, else the quarters of the
\* four ordinal directions.  A quarter that panics (unreachable!) makes the
\* whole call panic.
CellDetails_from_grid(g, c, cards) ==
    IF unwrap_or(GridGet(g, c), "Floor") = "Floor"
    THEN None
    ELSE LET cell_details == from_grid_loop(g, c, cards, 1, CellDetails_outer)
         IN  IF \E i \in 1..4 : cell_details.quarters[i].piece = Unreachable
             THEN Panic
             ELSE Some(cell_details)

InitGrid ==
    /\ grid \in GridsUpTo(MaxCells)
    /\ coord \in Coords(grid.width, grid.height)
    /\ neigh_a = Unused /\ neigh_b = Unused
    /\ buf_a = Unused /\ buf_b = Unused /\ buf_c = Unused
    /\ overflow_checks = Unused
    /\ call = "none"
    /\ ret = NoRet

QuarterFromGrid ==
    /\ call = "none"
    /\ \E o \in OrdinalDirection : \E cards \in CardinalPairs(o) :
         /\ call' = "Quarter::from_grid"
         /\ ret' = [direction |-> o, quarter |-> Quarter_from_grid(grid, coord, cards)]
    /\ UNCHANGED <<neigh_a, neigh_b, grid, coord, buf_a, buf_b, buf_c,
                   overflow_checks>>

CellDetailsFromGrid ==
    /\ call = "none"
    /\ \E cards \in CardinalChoices :
         /\ call' = "CellDetails::from_grid"
         /\ ret' = CellDetails_from_grid(grid, coord, cards)
    /\ UNCHANGED <<neigh_a, neigh_b, grid, coord, buf_a, buf_b, buf_c,
                   overflow_checks>>

NextGrid == QuarterFromGrid \/ CellDetailsFromGrid

SpecGrid == InitGrid /\ [][NextGrid]_vars

\* The pieces of a CellDetails, in the order NE, SE, SW, NW.
Pieces(details) == [i \in 1..4 |-> details.quarters[i].piece]

CellAt(c) == grid.cells[c]

\* The 2x2 grid of rows "##" and ".#".
GridC2 ==
    [width |-> 2, height |-> 2,
     cells |-> [c \in Coords(2, 2) |-> IF c = <<0, 1>> THEN "Floor" ELSE "Wall"]]

\* C2, as amended: in the grid "##" / ".#" the Wall cell at (1,1) has a Wall
\* to the north, the Floor cell to the west and out-of-grid cells to the east
\* and south; its quarters are NE: Right, SE: Outer, SW: Outer, NW: Left.
C2_ScenarioQuarters ==
    (call = "CellDetails::from_grid" /\ grid = GridC2 /\ coord = <<1, 1>>) =>
        /\ ret.is_some
        /\ Pieces(ret.value) = <<"Right", "Outer", "Outer", "Left">>

C2_Witness ==
    /\ call = "CellDetails::from_grid" /\ grid = GridC2 /\ coord = <<1, 1>>
    /\ ret.is_some

\* C2 as stated: the quarters are NE: Inner, SE: Inner, SW: Left or Right,
\* NW: Inner.
C2_AsStated ==
    (call = "CellDetails::from_grid" /\ grid = GridC2 /\ coord = <<1, 1>>) =>
        /\ ret.is_some
        /\ Pieces(ret.value)[1] = "Inner"
        /\ Pieces(ret.value)[2] = "Inner"
        /\ Pieces(ret.value)[3] \in {"Left", "Right"}
        /\ Pieces(ret.value)[4] = "Inner"

\* The type of the cell next to coord in direction card, read from the grid
\* variable itself: Floor when there is no such cell.
CardinalNeighbour(card) ==
    LET n == <<coord[1] + CardinalCoord(card)[1], coord[2] + CardinalCoord(card)[2]>>
    IN  IF n \in DOMAIN grid.cells THEN grid.cells[n] ELSE "Floor"

\* C3: a Wall cell whose four cardinal neighbours are Wall gets four Inner
\* quarters; one whose four cardinal neighbours are Floor, out-of-grid
\* neighbours counting as Floor, gets four Outer quarters.
C3_AllWallAllFloor ==
    (call = "CellDetails::from_grid" /\ CellAt(coord) = "Wall") =>
        /\ ret.is_some
        /\ (\A d \in CardinalDirection : CardinalNeighbour(d) = "Wall") =>
              Pieces(ret.value) = <<"Inner", "Inner", "Inner", "Inner">>
        /\ (\A d \in CardinalDirection : CardinalNeighbour(d) = "Floor") =>
              Pieces(ret.value) = <<"Outer", "Outer", "Outer", "Outer">>

\* Both cases of C3 in one grid family: the centre of a 3x3 grid.
C3_Witness ==
    /\ call = "CellDetails::from_grid" /\ CellAt(coord) = "Wall"
    /\ grid.width = 3 /\ grid.height = 3 /\ coord = <<1, 1>>
    /\ \A d \in CardinalDirection : CardinalNeighbour(d) = "Wall"
    /\ Pieces(ret.value) = <<"Inner", "Inner", "Inner", "Inner">>

\* C9: Quarter::from_grid returns a piece for every grid, every coordinate
\* of the grid and every ordinal direction: unreachable!() is never reached,
\* an out-of-grid neighbour being read as Floor.
C9_QuarterTotal ==
    (call = "Quarter::from_grid") =>
        /\ ret.quarter.piece \in Piece
        /\ LET cs == to_cardinals(ret.direction)
               type_a == CardinalNeighbour(cs[1])
               type_b == CardinalNeighbour(cs[2])
           IN  /\ (type_a = "Floor" /\ type_b = "Floor") <=> ret.quarter.piece = "Outer"
               /\ (type_a = "Wall" /\ type_b = "Wall") <=> ret.quarter.piece = "Inner"

\* A corner cell asked for the quarter that points out of the grid.
C9_Witness ==
    /\ call = "Quarter::from_grid"
    /\ coord = <<0, 0>> /\ ret.direction = "NorthWest"
    /\ CellAt(coord) = "Wall"
    /\ ret.quarter.piece = "Outer"

(***************************************************************************)
(* RelativeBuffers: [attributes, indices]; an Attribute is                 *)
(* [space_coord_px |-> <<x, y, z>>, tex_coord_px |-> <<u, v>>].            *)
(* Indices are u32: `i + len as u32` wraps in a build without overflow     *)
(* checks and panics in a build with them.  A u32 is held here as the      *)
(* 32-bit two's-complement integer with the same bits: 0 .. 2^31-1 as      *)
(* themselves and 2^31 .. 2^32-1 as the value minus 2^32, so that the      *)
(* largest u32 is -1 and adding a small count wraps as the u32 sum does.   *)
(***************************************************************************)
\* 0xFFFF_FFFF
U32Max == 0 - 1

EmptyBuffers == [attributes |-> <<>>, indices |-> <<>>]

\* The index sequence idx with every index offset by n, as u32.
OffsetIndices(idx, n) == [k \in 1..Len(idx) |-> idx[k] + n]

\* Some `i + n` overflows u32.
Overflows(idx, n) == \E k \in 1..Len(idx) : idx[k] < 0 /\ idx[k] + n >= 0

\* A concat that offsets by the second buffer's attribute count.
concat_offset_b(a, b) ==
    IF IsPanic(a) \/ IsPanic(b) THEN Panic
    ELSE IF overflow_checks /\ Overflows(b.indices, Len(b.attributes)) THEN Panic
    ELSE [attributes |-> a.attributes \o b.attributes,
          indices |-> a.indices \o OffsetIndices(b.indices, Len(b.attributes))]

\* A concat that offsets by the combined attribute count.
concat_offset_total(a, b) ==
    IF IsPanic(a) \/ IsPanic(b) THEN Panic
    ELSE LET n == Len(a.attributes) + Len(b.attributes)
         IN  IF overflow_checks /\ Overflows(b.indices, n) THEN Panic
             ELSE [attributes |-> a.attributes \o b.attributes,
                   indices |-> a.indices \o OffsetIndices(b.indices, n)]

\* RelativeBuffers::concat.  A panicked operand means the call is never made.
concat(a, b) ==
    IF IsPanic(a) \/ IsPanic(b) THEN Panic
    ELSE IF overflow_checks /\ Overflows(b.indices, Len(a.attributes)) THEN Panic
    ELSE [attributes |-> a.attributes \o b.attributes,
          indices |-> a.indices \o OffsetIndices(b.indices, Len(a.attributes))]

\* The loop of concat_all from the k-th buffer on, with its two accumulators.
RECURSIVE concat_all_loop(_, _, _, _)
concat_all_loop(bufs, k, attributes, indices) ==
    IF k > Len(bufs) THEN [attributes |-> attributes, indices |-> indices]
    ELSE LET b == bufs[k]
         IN  IF IsPanic(b) THEN Panic
             ELSE IF overflow_checks /\ Overflows(b.indices, Len(attributes))
             THEN Panic
             ELSE concat_all_loop(bufs, k + 1,
                                  attributes \o b.attributes,
                                  indices \o OffsetIndices(b.indices, Len(attributes)))

\* The loop with its two statements exchanged: the attributes are extended
\* before the indices are offset.
RECURSIVE concat_all_loop_extend_first(_, _, _, _)
concat_all_loop_extend_first(bufs, k, attributes, indices) ==
    IF k > Len(bufs) THEN [attributes |-> attributes, indices |-> indices]
    ELSE LET b == bufs[k]
             extended == attributes \o b.attributes
         IN  IF IsPanic(b) THEN Panic
             ELSE IF overflow_checks /\ Overflows(b.indices, Len(extended))
             THEN Panic
             ELSE concat_all_loop_extend_first(bufs, k + 1, extended,
                        indices \o OffsetIndices(b.indices, Len(extended)))

concat_all_extend_first(bufs) == concat_all_loop_extend_first(bufs, 1, <<>>, <<>>)

\* RelativeBuffers::concat_all
concat_all(bufs) == concat_all_loop(bufs, 1, <<>>, <<>>)

\* A 4x4 matrix is a tuple of four rows.
MatVec(m, v) ==
    [r \in 1..4 |-> m[r][1] * v[1] + m[r][2] * v[2] + m[r][3] * v[3] + m[r][4] * v[4]]

MatMul(m, n) ==
    [r \in 1..4 |->
        [c \in 1..4 |->
            m[r][1] * n[1][c] + m[r][2] * n[2][c] + m[r][3] * n[3][c] + m[r][4] * n[4][c]]]

\* (m * v.extend(1.)).truncate()
TransformPoint(m, v) ==
    LET h == MatVec(m, <<v[1], v[2], v[3], 1>>) IN <<h[1], h[2], h[3]>>

\* A transform that also moves the texture coordinates.
transform_with_tex(buf, m) ==
    IF IsPanic(buf) THEN Panic
    ELSE [attributes |->
            [k \in 1..Len(buf.attributes) |->
                [space_coord_px |-> TransformPoint(m, buf.attributes[k].space_coord_px),
                 tex_coord_px |->
                    LET t == TransformPoint(m, <<buf.attributes[k].tex_coord_px[1],
                                                 buf.attributes[k].tex_coord_px[2], 0>>)
                    IN  <<t[1], t[2]>>]],
          indices |-> buf.indices]

\* RelativeBuffers::transform
transform(buf, m) ==
    IF IsPanic(buf) THEN Panic
    ELSE [attributes |->
            [k \in 1..Len(buf.attributes) |->
                [space_coord_px |-> TransformPoint(m, buf.attributes[k].space_coord_px),
                 tex_coord_px |-> buf.attributes[k].tex_coord_px]],
          indices |-> buf.indices]

(***************************************************************************)
(* SpecBuf: concat, concat_all and transform on arbitrary small buffers.   *)
(***************************************************************************)
\* The largest attribute count and index count of an input buffer, and the
\* longest sequence of buffers handed to concat_all.
MaxAttrs == 2
MaxIdx == 1
MaxBufs == 4

\* Indices an input buffer may hold: valid ones, and the largest u32.
IndexValues == {0, 1, U32Max}

\* The j-th attribute of input buffer `slot`: the functions under test never
\* read an attribute except transform, so distinct tags show any reordering.
TaggedAttribute(slot, j) ==
    [space_coord_px |-> <<slot, j, slot + j>>, tex_coord_px |-> <<slot, j>>]

InputBuffers(slot) ==
    {[attributes |-> [j \in 1..n |-> TaggedAttribute(slot, j)], indices |-> idx] :
        n \in 0..MaxAttrs,
        idx \in UNION {[1..l -> IndexValues] : l \in 0..MaxIdx}}

\* The matrices handed to transform: the identity, a translation, a quarter
\* turn about the vertical axis, and a matrix with no zero entry.
Matrices ==
    {<< <<1, 0, 0, 0>>, <<0, 1, 0, 0>>, <<0, 0, 1, 0>>, <<0, 0, 0, 1>> >>,
     << <<1, 0, 0, 24>>, <<0, 1, 0, 0>>, <<0, 0, 1, 8>>, <<0, 0, 0, 1>> >>,
     << <<0, 0, 1, 0>>, <<0, 1, 0, 0>>, <<-1, 0, 0, 0>>, <<0, 0, 0, 1>> >>,
     << <<2, 1, 3, 5>>, <<1, 2, 1, 7>>, <<3, 1, 2, 1>>, <<1, 1, 1, 2>> >>}

InitBuf ==
    /\ buf_a \in InputBuffers(1)
    /\ buf_b \in InputBuffers(2)
    /\ buf_c \in InputBuffers(3)
    /\ overflow_checks \in BOOLEAN
    /\ neigh_a = Unused /\ neigh_b = Unused
    /\ grid = Unused /\ coord = Unused
    /\ call = "none"
    /\ ret = NoRet

\* The first n buffers of the sequence a, b, c, a, b, c, ...
InputSequence(n) ==
    [k \in 1..n |-> CASE k % 3 = 1 -> buf_a [] k % 3 = 2 -> buf_b [] OTHER -> buf_c]

\* (A + B) + C and A + (B + C)
ConcatThree ==
    /\ call = "none"
    /\ call' = "concat3"
    /\ ret' = [left |-> concat(concat(buf_a, buf_b), buf_c),
               right |-> concat(buf_a, concat(buf_b, buf_c))]
    /\ UNCHANGED <<neigh_a, neigh_b, grid, coord, buf_a, buf_b, buf_c,
                   overflow_checks>>

ConcatAll ==
    /\ call = "none"
    /\ \E n \in 0..MaxBufs :
         /\ call' = "concat_all"
         /\ ret' = [n |-> n, buffers |-> concat_all(InputSequence(n))]
    /\ UNCHANGED <<neigh_a, neigh_b, grid, coord, buf_a, buf_b, buf_c,
                   overflow_checks>>

Transform ==
    /\ call = "none"
    /\ \E m \in Matrices :
         /\ call' = "transform"
         /\ ret' = [m |-> m, buffers |-> transform(buf_a, m)]
    /\ UNCHANGED <<neigh_a, neigh_b, grid, coord, buf_a, buf_b, buf_c,
                   overflow_checks>>

NextBuf == ConcatThree \/ ConcatAll \/ Transform

SpecBuf == InitBuf /\ [][NextBuf]_vars

\* C5: concat is associative: (A+B)+C and A+(B+C) are the same buffer, whose
\* attributes are A's, B's, C's in order and whose indices are A's, then
\* B's offset by |A.attributes|, then C's offset by |A.attributes| +
\* |B.attributes|; under overflow checks both sides panic or neither does.
C5_ConcatAssociative ==
    (call = "concat3") =>
        /\ ret.left = ret.right
        /\ ~IsPanic(ret.left) =>
              /\ ret.left.attributes =
                    buf_a.attributes \o buf_b.attributes \o buf_c.attributes
              /\ ret.left.indices =
                    buf_a.indices
                    \o OffsetIndices(buf_b.indices, Len(buf_a.attributes))
                    \o OffsetIndices(buf_c.indices,
                                     Len(buf_a.attributes) + Len(buf_b.attributes))

C5_Witness ==
    /\ call = "concat3"
    /\ ~IsPanic(ret.left)
    /\ Len(buf_a.attributes) = 2 /\ Len(buf_b.attributes) = 1
    /\ buf_b.indices = <<0>> /\ buf_c.indices = <<1>>
    /\ ret.right.indices = buf_a.indices \o <<2, 4>>

\* C8: transform leaves the indices identical and the number, order and
\* texture coordinates of the attributes unchanged.
C8_TransformFrame ==
    (call = "transform") =>
        /\ ret.buffers.indices = buf_a.indices
        /\ Len(ret.buffers.attributes) = Len(buf_a.attributes)
        /\ \A k \in 1..Len(buf_a.attributes) :
              ret.buffers.attributes[k].tex_coord_px = buf_a.attributes[k].tex_coord_px

\* A transform that moved a vertex of a buffer with indices.
C8_Witness ==
    /\ call = "transform"
    /\ Len(buf_a.indices) > 0
    /\ Len(buf_a.attributes) > 1
    /\ ret.buffers.attributes[2].space_coord_px # buf_a.attributes[2].space_coord_px

\* Folding concat from the empty buffer over the first k buffers of bufs.
RECURSIVE FoldConcat(_, _)
FoldConcat(bufs, k) ==
    IF k = 0 THEN EmptyBuffers ELSE concat(FoldConcat(bufs, k - 1), bufs[k])

RECURSIVE SumOver(_, _, _)
SumOver(F(_), bufs, k) ==
    IF k = 0 THEN 0 ELSE SumOver(F, bufs, k - 1) + F(bufs[k])

AttributeCount(b) == Len(b.attributes)
IndexCount(b) == Len(b.indices)

\* C10: concat_all over b1..bn returns what folding concat from the empty
\* buffer over b1..bn returns, and its attribute and index counts are the
\* sums of the inputs' counts.
C10_ConcatAllIsFold ==
    (call = "concat_all") =>
        LET bufs == InputSequence(ret.n)
        IN  /\ ret.buffers = FoldConcat(bufs, ret.n)
            /\ ~IsPanic(ret.buffers) =>
                  /\ Len(ret.buffers.attributes) = SumOver(AttributeCount, bufs, ret.n)
                  /\ Len(ret.buffers.indices) = SumOver(IndexCount, bufs, ret.n)

C10_Witness ==
    /\ call = "concat_all"
    /\ ret.n = 4
    /\ ~IsPanic(ret.buffers)
    /\ Len(ret.buffers.attributes) = 5
    /\ ret.buffers.indices = <<1, 2, 3, 5>>

(***************************************************************************)
(* Piece geometry.  Vectors are tuples; s = cell_size_px, w = width_px.    *)
(***************************************************************************)
\* The Style and Config main builds.
MainStyle ==
    [width_px |-> 8, height_px |-> 32,
     face_tex_top_left_px |-> <<32, 0>>, top_tex_top_left_px |-> <<0, 0>>]

MainConfig == [cell_size_px |-> 16]

Vec2Add(u, v) == <<u[1] + v[1], u[2] + v[2]>>

BASE_TOP_ALTERNATING_INDICES_1 == <<0, 1, 2, 1, 3, 2>>
BASE_TOP_ALTERNATING_INDICES_2 == <<0, 1, 2, 1, 3, 2, 2, 3, 4, 3, 5, 4>>

BaseAttribute(x, space) == [face_tex_offset_px_x |-> x, space_coord_px |-> space]

\* make_edge_base: <<profile points, face indices>>
make_edge_base(piece, style, config) ==
    LET s == config.cell_size_px
        w == style.width_px
    IN  CASE piece = "Inner" ->
               << <<BaseAttribute(0, <<s, w>>),
                    BaseAttribute(s - w, <<w, w>>),
                    BaseAttribute(2 * (s - w), <<w, s>>)>>,
                  BASE_TOP_ALTERNATING_INDICES_2 >>
          [] piece = "Outer" ->
               << <<BaseAttribute(0, <<0, w>>),
                    BaseAttribute(w, <<w, w>>),
                    BaseAttribute(2 * w, <<0, w>>)>>,
                  BASE_TOP_ALTERNATING_INDICES_2 >>
          [] piece = "Left" ->
               << <<BaseAttribute(0, <<s, w>>),
                    BaseAttribute(s, <<0, w>>)>>,
                  BASE_TOP_ALTERNATING_INDICES_1 >>
          [] piece = "Right" ->
               << <<BaseAttribute(0, <<w, 0>>),
                    BaseAttribute(s, <<w, s>>)>>,
                  BASE_TOP_ALTERNATING_INDICES_1 >>

\* make_faces: the base and top vertex of each profile point, alternating.
make_faces(piece, style, config) ==
    LET edge_base == make_edge_base(piece, style, config)[1]
        indices == make_edge_base(piece, style, config)[2]
        base(a) ==
            [space_coord_px |-> <<a.space_coord_px[1], 0, a.space_coord_px[2]>>,
             tex_coord_px |-> Vec2Add(<<a.face_tex_offset_px_x, style.height_px>>,
                                      style.face_tex_top_left_px)]
        top(a) ==
            [space_coord_px |->
                <<a.space_coord_px[1], style.height_px, a.space_coord_px[2]>>,
             tex_coord_px |-> Vec2Add(<<a.face_tex_offset_px_x, 0>>,
                                      style.face_tex_top_left_px)]
        base_top_alternating ==
            [k \in 1..(2 * Len(edge_base)) |->
                IF k % 2 = 1 THEN base(edge_base[(k + 1) \div 2])
                ELSE top(edge_base[k \div 2])]
    IN  [attributes |-> base_top_alternating, indices |-> indices]

\* TopAttribute::new
TopAttribute_new(piece_tex_offset_px, space_coord_px) ==
    [tex_offset_px |-> Vec2Add(piece_tex_offset_px,
                               <<space_coord_px[1], 0 - space_coord_px[2]>>),
     space_coord_px |-> space_coord_px]

\* make_rect_top: <<corners, indices>>
make_rect_top(size, piece_tex_offset_px) ==
    << <<TopAttribute_new(piece_tex_offset_px, <<0, 0>>),
         TopAttribute_new(piece_tex_offset_px, <<0, size[2]>>),
         TopAttribute_new(piece_tex_offset_px, size),
         TopAttribute_new(piece_tex_offset_px, <<size[1], 0>>)>>,
       <<0, 1, 2, 0, 2, 3>> >>

make_top(piece, style, config) ==
    LET s == config.cell_size_px
        w == style.width_px
        top == CASE piece = "Inner" ->
                      << <<TopAttribute_new(<<s, s>>, <<0, s>>),
                           TopAttribute_new(<<s, s>>, <<w, s>>),
                           TopAttribute_new(<<s, s>>, <<w, w>>),
                           TopAttribute_new(<<s, s>>, <<0, 0>>),
                           TopAttribute_new(<<s, s>>, <<s, 0>>),
                           TopAttribute_new(<<s, s>>, <<s, w>>)>>,
                         <<0, 1, 2, 0, 2, 3, 2, 4, 3, 2, 5, 4>> >>
                 [] piece = "Outer" -> make_rect_top(<<w, w>>, <<0, 2 * s>>)
                 [] piece = "Left" -> make_rect_top(<<s, w>>, <<s, 2 * s>>)
                 [] piece = "Right" -> make_rect_top(<<w, s>>, <<0, s>>)
        attributes ==
            [k \in 1..Len(top[1]) |->
                [space_coord_px |-> <<top[1][k].space_coord_px[1], style.height_px,
                                      top[1][k].space_coord_px[2]>>,
                 tex_coord_px |-> Vec2Add(top[1][k].tex_offset_px,
                                          style.top_tex_top_left_px)]]
    IN  [attributes |-> attributes, indices |-> top[2]]

\* make_geometry: the top face, then the side faces.
make_geometry(piece, style, config) ==
    LET top == make_top(piece, style, config)
        faces == make_faces(piece, style, config)
    IN  concat(top, faces)

\* Matrix4::from_translation
from_translation(v) ==
    << <<1, 0, 0, v[1]>>, <<0, 1, 0, v[2]>>, <<0, 0, 1, v[3]>>, <<0, 0, 0, 1>> >>

\* Matrix4::from_angle_y, given the cosine and the sine of the angle.
from_angle_y(cos, sin) ==
    << <<cos, 0, sin, 0>>, <<0, 1, 0, 0>>, <<0 - sin, 0, cos, 0>>, <<0, 0, 0, 1>> >>

move_to_cell_centre(c, config) ==
    LET position == Vec2Add(<<c[1] * config.cell_size_px, c[2] * config.cell_size_px>>,
                            <<config.cell_size_px \div 2, config.cell_size_px \div 2>>)
    IN  from_translation(<<position[1], 0, position[2]>>)

\* rotate_to_direction: angles 0, PI/2, PI, -PI/2.
rotate_to_direction(direction) ==
    CASE direction = "NorthEast" -> from_angle_y(1, 0)
      [] direction = "SouthEast" -> from_angle_y(0, 1)
      [] direction = "SouthWest" -> from_angle_y(-1, 0)
      [] direction = "NorthWest" -> from_angle_y(0, -1)

\* CellDetails::make_geometry: one transformed buffer per quarter.
CellDetails_make_geometry(details, c, style, config) ==
    LET translate == move_to_cell_centre(c, config)
    IN  [i \in 1..4 |->
            LET rotate == rotate_to_direction(OrdinalDirections[i])
            IN  transform(make_geometry(details.quarters[i].piece, style, config),
                          MatMul(translate, rotate))]

(***************************************************************************)
(* main: the detail grid, the buffers of its Wall cells in row-major       *)
(* order, and their merge.                                                 *)
(***************************************************************************)
\* The largest number of cells of a grid main is run on.
MeshMaxCells == 6

\* Grid::enumerate: row by row.
EnumerateCoords(g) ==
    [k \in 1..(g.width * g.height) |-> <<(k - 1) % g.width, (k - 1) \div g.width>>]

\* The buffers one cell of the detail grid adds to geometry_iter:
\* filter_map drops a None cell, flat_map appends a Some cell's four buffers.
MainCellBuffers(cell, c) ==
    IF cell.is_some
    THEN CellDetails_make_geometry(cell.value, c, MainStyle, MainConfig)
    ELSE <<>>

RECURSIVE FlatMapCells(_, _, _)
FlatMapCells(detail_grid, coords, k) ==
    IF k = 0 THEN <<>>
    ELSE FlatMapCells(detail_grid, coords, k - 1)
         \o MainCellBuffers(detail_grid[coords[k]], coords[k])

\* main, from the type grid on: what it has built when it prints.
Main(type_grid, cards) ==
    LET detail_grid ==
            [c \in DOMAIN type_grid.cells |-> CellDetails_from_grid(type_grid, c, cards)]
        coords == EnumerateCoords(type_grid)
    IN  IF \E c \in DOMAIN detail_grid : IsPanic(detail_grid[c])
        THEN Panic
        ELSE LET geometry_iter == FlatMapCells(detail_grid, coords, Len(coords))
             IN  [detail_grid |-> detail_grid,
                  geometry_iter |-> geometry_iter,
                  geometry |-> concat_all(geometry_iter)]

InitMesh ==
    /\ grid \in GridsUpTo(MeshMaxCells)
    /\ overflow_checks \in BOOLEAN
    /\ coord = Unused
    /\ neigh_a = Unused /\ neigh_b = Unused
    /\ buf_a = Unused /\ buf_b = Unused /\ buf_c = Unused
    /\ call = "none"
    /\ ret = NoRet

RunMain ==
    /\ call = "none"
    /\ \E cards \in CardinalChoices :
         /\ call' = "main"
         /\ ret' = Main(grid, cards)
    /\ UNCHANGED <<neigh_a, neigh_b, grid, coord, buf_a, buf_b, buf_c,
                   overflow_checks>>

NextMesh == RunMain

SpecMesh == InitMesh /\ [][NextMesh]_vars

\* Every index of b refers to one of b's attributes (as u32: an index
\* held as a negative number is 2^31 or more).
ValidBuffers(b) ==
    /\ ~IsPanic(b)
    /\ \A k \in 1..Len(b.indices) :
          b.indices[k] >= 0 /\ b.indices[k] < Len(b.attributes)

\* C6: every index of a buffer is less than the buffer's attribute count:
\* for the top face, the side faces and their concatenation (make_geometry)
\* of each of the four pieces, for each transformed quarter buffer, and for
\* the merged mesh concat_all makes of any grid.
C6_IndicesInRange ==
    (call = "main") =>
        /\ \A p \in Piece :
              /\ ValidBuffers(make_top(p, MainStyle, MainConfig))
              /\ ValidBuffers(make_faces(p, MainStyle, MainConfig))
              /\ ValidBuffers(make_geometry(p, MainStyle, MainConfig))
        /\ ~IsPanic(ret)
        /\ \A k \in 1..Len(ret.geometry_iter) : ValidBuffers(ret.geometry_iter[k])
        /\ ValidBuffers(ret.geometry)

\* A mesh merged from the buffers of at least two Wall cells.
C6_Witness ==
    /\ call = "main"
    /\ ~IsPanic(ret)
    /\ Len(ret.geometry_iter) >= 8
    /\ Len(ret.geometry.indices) > 0
    /\ \E k \in 1..Len(ret.geometry.indices) :
          ret.geometry.indices[k] = Len(ret.geometry.attributes) - 1

\* C7: for a coordinate whose cell is Floor, CellDetails::from_grid returns
\* None whatever the neighbouring cells are, and the cell adds no buffer to
\* the mesh.
C7_FloorNoDetail ==
    (call = "CellDetails::from_grid" /\ CellAt(coord) = "Floor") =>
        /\ ret = None
        /\ MainCellBuffers(ret, coord) = <<>>

\* A Floor cell with a Wall on each of its four sides.
C7_Witness ==
    /\ call = "CellDetails::from_grid" /\ CellAt(coord) = "Floor"
    /\ \A d \in CardinalDirection : CardinalNeighbour(d) = "Wall"
    /\ ret = None

====
